---- MODULE Spec2Model ----
(***************************************************************************)
(* Route resolution in the LastMile front end.                             *)
(*                                                                         *)
(*   RoutingMachine (travel-cost App): one provider fetch per effect run,  *)
(*   then the provider branch, the tier-1 fallback (createFallbackRoute)   *)
(*   and the tier-2 fallback (createSimpleDirectRoute).                    *)
(*   RouteTracker: shortest-route selection in the 'routesfound' handler.  *)
(*                                                                         *)
(* Coordinates are integers in tenths of a degree (900 is latitude 90) and  *)
(* the inputs are multiples of 100, so that the factors 0.33 and 0.66 of   *)
(* the source are exact (x * 33 \div 100).                                 *)
(* Distances are metres, durations seconds.                                *)
(***************************************************************************)
EXTENDS Integers, Sequences, FiniteSets, TLC

VARIABLES
    currentLocation,   \* App state: [lat, lng] or NoLocation
    waypoints,         \* App state: sequence of points
    routeInfo,         \* App state: NoRouteInfo or [distance, duration]
    routeCoordinates,  \* App state: sequence of points
    error,             \* App state: error message
    component,         \* RoutingMachine: "idle" (never mounted), "mounted", "unmounted"
    routeLineRef,      \* RoutingMachine: routeLineRef.current
    mapLayers,         \* polylines of RoutingMachine currently on the map
    lastFit,           \* options of the last map.fitBounds call
    res,               \* one record per effect run (resolution) of RoutingMachine
    calls,             \* every invocation of onRoutesFound, in order
    rtMounted,         \* RouteTracker: whether the last effect run returned a cleanup
    rtControls,        \* RouteTracker: one record per routing control created
    routingControlRef, \* RouteTracker: routingControlRef.current (0 = null)
    rtControlsOnMap,   \* routing controls on the map
    rtLineRef,         \* RouteTracker: routeLineRef.current (0 = null)
    rtLinesOnMap,      \* highlight polylines on the map
    rtLines,           \* number of highlight polylines created
    rtLastCall,        \* the last invocation of RouteTracker's onRoutesFound
    toAddress,         \* App state: the destination input
    destinations,      \* App state: sequence of [address, coords]
    loading,           \* App state
    geocodes,          \* one record per geocodeAddress call of addDestination
    transitCall,       \* landing App: the last call of generateTransitPoints
    userMessage,       \* landing App state: the chat input
    chatMessages,      \* landing App state: the message log
    chatRendered,      \* chatMessages as the last committed render closed over it
    chatTimers,        \* pending bot-reply timers, oldest first: the text each captured
    chatSent           \* every entry handed to setChatMessages, in order

rmVars == <<currentLocation, waypoints, routeInfo, routeCoordinates, error,
            component, routeLineRef, mapLayers, lastFit, res, calls>>

rtVars == <<rtMounted, rtControls, routingControlRef, rtControlsOnMap,
            rtLineRef, rtLinesOnMap, rtLines, rtLastCall>>

geoVars == <<toAddress, destinations, loading, geocodes>>

landingVars == <<transitCall, userMessage, chatMessages, chatRendered, chatTimers,
                 chatSent>>

vars == <<rmVars, rtVars, geoVars, landingVars>>

-----------------------------------------------------------------------------
(* Bounds of the model                                                     *)

MaxResolutions == 2     \* effect runs of RoutingMachine in one behaviour
MaxRoutes == 2          \* candidate routes in one provider answer
MaxControls == 2        \* routing controls RouteTracker creates in one behaviour
MaxEvents == 3          \* events the routing controls fire in one behaviour
MaxGeocodes == 2        \* geocodeAddress calls of addDestination in one behaviour
MaxPath == 4            \* points of the path given to generateTransitPoints
MaxSegments == 3        \* segments given to generateTransitPoints
MaxSubmissions == 3     \* non-blank chat submissions in one behaviour

-----------------------------------------------------------------------------
(* Input domains                                                           *)

Locations == { <<0, 0>>, <<-100, 200>> }
\* <<200, -100>> is 300 away from OneLocation on both axes; <<1000, 0>> has a
\* latitude of 100 degrees
DestCoords == { <<-100, 200>>, <<0, 0>>, <<100, 100>>, <<200, -100>>, <<1000, 0>> }

Statuses == { 200, 500 }

\* provider geometry is GeoJSON: [lng, lat] pairs
OnePoint == << <<10, 20>> >>
TwoPoints == << <<10, 20>>, <<30, 40>> >>

\* candidates that satisfy the RouteCandidate invariant
GoodCandidates ==
    { [distance |-> 100, duration |-> 9, hasGeometry |-> TRUE, coordinates |-> TwoPoints],
      [distance |-> 100, duration |-> 18, hasGeometry |-> TRUE, coordinates |-> TwoPoints],
      [distance |-> 200, duration |-> 18, hasGeometry |-> TRUE, coordinates |-> TwoPoints] }

\* candidates an unreliable provider can also send: negative numbers, a
\* geometry of one point or of none, no geometry member
DefectiveCandidates ==
    { [distance |-> -100, duration |-> -9, hasGeometry |-> TRUE, coordinates |-> TwoPoints],
      [distance |-> 100, duration |-> 9, hasGeometry |-> TRUE, coordinates |-> OnePoint],
      [distance |-> 100, duration |-> 9, hasGeometry |-> TRUE, coordinates |-> <<>>],
      [distance |-> 100, duration |-> 9, hasGeometry |-> FALSE, coordinates |-> <<>>] }

Candidates == GoodCandidates \cup DefectiveCandidates

RouteLists(candidates) == UNION { [1..n -> candidates] : n \in 0..MaxRoutes }

\* what response.json() can yield: a rejection (parses = FALSE), an object
\* without a routes member, or an object with a routes list
Bodies ==
    { [parses |-> FALSE, hasRoutes |-> FALSE, routes |-> <<>>],
      [parses |-> TRUE, hasRoutes |-> FALSE, routes |-> <<>>] }
    \cup [ parses : {TRUE}, hasRoutes : {TRUE}, routes : RouteLists(Candidates) ]

\* the inputs drawn when several resolutions overlap
FewBodies ==
    { [parses |-> FALSE, hasRoutes |-> FALSE, routes |-> <<>>],
      [parses |-> TRUE, hasRoutes |-> TRUE,
       routes |-> << [distance |-> 100, duration |-> 9, hasGeometry |-> TRUE,
                      coordinates |-> TwoPoints] >>] }
FewStatuses == { 200 }
FewDests == { <<100, 100>> }
OneLocation == { <<-100, 200>> }

\* the step of a branch at which the environment (Leaflet, the callback)
\* throws, if any
Throws == { "none", "polyline", "fitBounds", "callback" }
FewThrows == { "none", "fitBounds" }

NoLocation == << >>
NoRouteInfo == [distance |-> 0, duration |-> 0, set |-> FALSE]
NoLine == [res |-> 0, tier |-> "none", late |-> FALSE]
NoFit == [padding |-> 0, maxZoom |-> 0]
NoTransitCall == [called |-> FALSE]
\* useState([...]): the greeting the log starts with
InitialChat == << [sender |-> "bot", text |-> "greeting"] >>
NoCall == [control |-> 0, routes |-> <<>>, selected |-> 0, distance |-> 0,
           duration |-> 0, coordinates |-> <<>>]

-----------------------------------------------------------------------------
(* Pure helpers                                                            *)

RECURSIVE IsqrtIn(_, _, _)
IsqrtIn(n, lo, hi) ==
    IF lo >= hi THEN lo
    ELSE LET mid == (lo + hi + 1) \div 2
         IN  IF mid * mid <= n THEN IsqrtIn(n, mid, hi) ELSE IsqrtIn(n, lo, mid - 1)

\* the integer square root: the largest k with k * k <= n (46340 is the
\* largest k whose square is a 32-bit integer)
Isqrt(n) == IsqrtIn(n, 0, IF n < 46340 THEN n ELSE 46340)

\* a distance that is one grid unit too long
distanceTo_OneMore(p, q) ==
    100 * (Isqrt((p[1] - q[1]) * (p[1] - q[1]) + (p[2] - q[2]) * (p[2] - q[2])) + 1)

\* point1.distanceTo(point2): Leaflet's great-circle distance, here the planar
\* distance on the integer grid, 100 metres to the grid unit
distanceTo(p, q) ==
    100 * Isqrt((p[1] - q[1]) * (p[1] - q[1]) + (p[2] - q[2]) * (p[2] - q[2]))

\* totalDistance / (40 * 1000 / 3600)
SpeedKmh == 40

\* the speed taken as metres per second instead of kilometres per hour
EstimateDuration_MetresPerSecond(distance) == distance \div SpeedKmh

EstimateDuration(distance) == (distance * 3600) \div (SpeedKmh * 1000)

\* route.geometry.coordinates.map(coord => [coord[1], coord[0]])
SwapLngLat(coords) == [i \in 1..Len(coords) |-> <<coords[i][2], coords[i][1]>>]

\* a path that starts at the first interpolated point instead of the origin
FallbackWayPoints_NoOrigin(startPoint, endPoint) ==
    << <<startPoint[1] + ((endPoint[1] - startPoint[1]) * 33) \div 100,
         startPoint[2] + ((endPoint[2] - startPoint[2]) * 33) \div 100>>,
       <<startPoint[1] + ((endPoint[1] - startPoint[1]) * 66) \div 100,
         startPoint[2] + ((endPoint[2] - startPoint[2]) * 66) \div 100>>,
       <<endPoint[1], endPoint[2]>> >>

\* interior points at the exact thirds of the way
FallbackWayPoints_Thirds(startPoint, endPoint) ==
    << <<startPoint[1], startPoint[2]>>,
       <<startPoint[1] + (endPoint[1] - startPoint[1]) \div 3,
         startPoint[2] + (endPoint[2] - startPoint[2]) \div 3>>,
       <<startPoint[1] + (2 * (endPoint[1] - startPoint[1])) \div 3,
         startPoint[2] + (2 * (endPoint[2] - startPoint[2])) \div 3>>,
       <<endPoint[1], endPoint[2]>> >>

\* const wayPoints = [...]: the four points of the tier-1 path
FallbackWayPoints(startPoint, endPoint) ==
    << <<startPoint[1], startPoint[2]>>,
       <<startPoint[1] + ((endPoint[1] - startPoint[1]) * 33) \div 100,
         startPoint[2] + ((endPoint[2] - startPoint[2]) * 33) \div 100>>,
       <<startPoint[1] + ((endPoint[1] - startPoint[1]) * 66) \div 100,
         startPoint[2] + ((endPoint[2] - startPoint[2]) * 66) \div 100>>,
       <<endPoint[1], endPoint[2]>> >>

RECURSIVE SumLegs(_, _)
SumLegs(path, i) ==
    IF i >= Len(path) THEN 0
    ELSE distanceTo(path[i], path[i + 1]) + SumLegs(path, i + 1)

\* the direct distance from the first to the last point instead of the sum
TotalDistance_Direct(wayPoints) == distanceTo(wayPoints[1], wayPoints[Len(wayPoints)])

\* the loop over consecutive points of wayPoints
TotalDistance(wayPoints) == SumLegs(wayPoints, 1)

\* a selection by minimum total distance instead of by position
SelectRoute_Shortest(routes) ==
    routes[CHOOSE k \in 1..Len(routes) :
              \A i \in 1..Len(routes) : routes[k].distance <= routes[i].distance]

\* const route = data.routes[0]: the candidate the provider branch uses
SelectRoute(routes) == routes[1]

\* map.fitBounds throws "Bounds are not valid." for a polyline without points
BoundsValid(coordinates) == Len(coordinates) > 0

-----------------------------------------------------------------------------
(* The map, the refs and the caller's state, threaded through one          *)
(* synchronous run of code as a record w; tiers and threwIn are the        *)
(* branches the running resolution has entered and those that threw.       *)

World ==
    [ mapLayers |-> mapLayers, routeLineRef |-> routeLineRef, lastFit |-> lastFit,
      calls |-> calls, routeInfo |-> routeInfo, routeCoordinates |-> routeCoordinates,
      live |-> (component = "mounted"), tiers |-> <<>>, threwIn |-> {} ]

\* a polyline; late tells whether the cleanup of the effect run that made it
\* had already run when it was made
Line(r, tier) == [res |-> r, tier |-> tier, late |-> res[r].cleaned]

\* L.polyline(...).addTo(map); routeLineRef.current = routeLine
addPolyline(w, line) ==
    [w EXCEPT !.mapLayers = @ \cup {line}, !.routeLineRef = line]

\* map.fitBounds(bounds, options)
fitBounds(w, options) == [w EXCEPT !.lastFit = options]

\* App.handleRoutesFound: state setters of an unmounted App do nothing
handleRoutesFound(w, payload) ==
    IF ~w.live THEN w
    ELSE [w EXCEPT !.routeInfo = [distance |-> payload.distance,
                                  duration |-> payload.duration, set |-> TRUE],
                   !.routeCoordinates = payload.coordinates]

\* payload.provenance as the receiver reads it: a member the object literal
\* does not have reads as undefined
Provenance(payload) ==
    IF "provenance" \in DOMAIN payload THEN payload.provenance ELSE "undefined"

\* one invocation of onRoutesFound by branch `tier` of resolution r; fit is
\* the options of the fitBounds call the branch made just before it
onRoutesFound(w, r, tier, payload, throws) ==
    LET logged == [w EXCEPT !.calls = Append(@,
                      [res |-> r, tier |-> tier, distance |-> payload.distance,
                       duration |-> payload.duration,
                       coordinates |-> payload.coordinates, fit |-> w.lastFit,
                       provenance |-> Provenance(payload),
                       cleaned |-> res[r].cleaned, threw |-> throws])]
    IN  IF throws THEN logged ELSE handleRoutesFound(logged, payload)

Enter(w, tier) == [w EXCEPT !.tiers = Append(@, tier)]
Thrown(w, tier) == [w |-> [w EXCEPT !.threwIn = @ \cup {tier}], threw |-> TRUE]
Returned(w) == [w |-> w, threw |-> FALSE]

\* tier 1 with the options of the provider branch
Tier1Fit_AsProvider == [padding |-> 50, maxZoom |-> 15]

ProviderFit == [padding |-> 50, maxZoom |-> 15]
Tier1Fit == [padding |-> 150, maxZoom |-> 13]
Tier2Fit == [padding |-> 150, maxZoom |-> 1]

\* polyline, fitBounds and callback of a branch, with the step t that throws
DrawAndReport(w, r, tier, payload, fit, t) ==
    IF t = "polyline" THEN Thrown(w, tier)
    ELSE LET w1 == addPolyline(w, Line(r, tier)) IN
         IF t = "fitBounds" \/ ~BoundsValid(payload.coordinates) THEN Thrown(w1, tier)
         ELSE LET w2 == fitBounds(w1, fit) IN
              IF t = "callback"
              THEN Thrown(onRoutesFound(w2, r, tier, payload, TRUE), tier)
              ELSE Returned(onRoutesFound(w2, r, tier, payload, FALSE))

\* fetchRoute, the branch taken when data.routes is a non-empty list
ProviderBranch(w0, r, routes, t) ==
    LET w == Enter(w0, "provider")
        route == SelectRoute(routes)
    IN  IF ~route.hasGeometry THEN Thrown(w, "provider")
        ELSE DrawAndReport(w, r, "provider",
                 [distance |-> route.distance, duration |-> route.duration,
                  coordinates |-> SwapLngLat(route.coordinates)],
                 ProviderFit, t)

\* a straight line that reports the length and the points of the curved path
createSimpleDirectRoute_Curved(w0, r, wp, t) ==
    LET w == Enter(w0, "tier2")
        wayPoints == FallbackWayPoints(wp[1], wp[2])
        distance == TotalDistance(wayPoints)
    IN  DrawAndReport(w, r, "tier2",
            [distance |-> distance, duration |-> EstimateDuration(distance),
             coordinates |-> wayPoints],
            Tier2Fit, t)

\* createSimpleDirectRoute
createSimpleDirectRoute(w0, r, wp, t) ==
    LET w == Enter(w0, "tier2")
        start == wp[1]
        end == wp[2]
        distance == distanceTo(start, end)
        duration == EstimateDuration(distance)
    IN  DrawAndReport(w, r, "tier2",
            [distance |-> distance, duration |-> duration,
             coordinates |-> <<start, end>>],
            Tier2Fit, t)

\* a tier 1 that adds its distance to the one the caller already holds
Tier1Branch_Accumulating(w0, r, wp, t) ==
    LET w == Enter(w0, "tier1")
        wayPoints == FallbackWayPoints(wp[1], wp[2])
        totalDistance == w0.routeInfo.distance + TotalDistance(wayPoints)
    IN  DrawAndReport(w, r, "tier1",
            [distance |-> totalDistance, duration |-> EstimateDuration(totalDistance),
             coordinates |-> wayPoints],
            Tier1Fit, t)

\* createFallbackRoute, the try block
Tier1Branch(w0, r, wp, t) ==
    LET w == Enter(w0, "tier1")
        wayPoints == FallbackWayPoints(wp[1], wp[2])
        totalDistance == TotalDistance(wayPoints)
        duration == EstimateDuration(totalDistance)
    IN  DrawAndReport(w, r, "tier1",
            [distance |-> totalDistance, duration |-> duration,
             coordinates |-> wayPoints],
            Tier1Fit, t)

\* createFallbackRoute: the try block, and createSimpleDirectRoute in its catch;
\* chain is the state of the promise the async function returns
createFallbackRoute(w, r, wp, t1, t2) ==
    LET a == Tier1Branch(w, r, wp, t1) IN
    IF ~a.threw THEN [w |-> a.w, fetch |-> "fulfilled", chain |-> "fulfilled"]
    ELSE LET b == createSimpleDirectRoute(a.w, r, wp, t2) IN
         [w |-> b.w, fetch |-> "fulfilled",
          chain |-> IF b.threw THEN "rejected" ELSE "fulfilled"]

\* a catch block that goes straight to the straight line
fetchRouteBody_DirectLine(w, r, wp, body, tP, t1, t2) ==
    LET direct(v) ==
            LET b == createSimpleDirectRoute(v, r, wp, t2)
            IN  [w |-> b.w, fetch |-> IF b.threw THEN "rejected" ELSE "fulfilled",
                 chain |-> "none"]
    IN  IF ~body.parses THEN direct(w)
        ELSE IF body.hasRoutes /\ Len(body.routes) > 0
             THEN LET a == ProviderBranch(w, r, body.routes, tP) IN
                  IF a.threw THEN direct(a.w)
                  ELSE [w |-> a.w, fetch |-> "fulfilled", chain |-> "none"]
             ELSE createFallbackRoute(w, r, wp, t1, t2)

\* fetchRoute from the settlement of response.json() to its end
fetchRouteBody(w, r, wp, body, tP, t1, t2) ==
    IF ~body.parses THEN createFallbackRoute(w, r, wp, t1, t2)
    ELSE IF body.hasRoutes /\ Len(body.routes) > 0
         THEN LET a == ProviderBranch(w, r, body.routes, tP) IN
              IF a.threw THEN createFallbackRoute(a.w, r, wp, t1, t2)
              ELSE [w |-> a.w, fetch |-> "fulfilled", chain |-> "none"]
         ELSE createFallbackRoute(w, r, wp, t1, t2)

\* whether the given choices reach the tier-1 / tier-2 fallback
ReachesTier1(body, tP) ==
    \/ ~body.parses
    \/ ~(body.hasRoutes /\ Len(body.routes) > 0)
    \/ ProviderBranch(World, 1, body.routes, tP).threw

ReachesTier2(t1) == t1 # "none"

-----------------------------------------------------------------------------
(* State                                                                   *)

\* the coordinates in the path of the request URL:
\* ${startPoint[1]},${startPoint[0]};${endPoint[1]},${endPoint[0]}
RequestUrl_AllPoints(wp) == [i \in 1..Len(wp) |-> <<wp[i][2], wp[i][1]>>]

RequestUrl(wp) == << <<wp[1][2], wp[1][1]>>, <<wp[2][2], wp[2][1]>> >>

NewResolution(wp) ==
    [ wp |-> wp, url |-> RequestUrl(wp), pc |-> "fetch", status |-> 0,
      outcome |-> "pending",
      routes |-> <<>>, tiers |-> <<>>, threwIn |-> {},
      fetch |-> "pending", chain |-> "none", cleaned |-> FALSE ]

Init ==
    /\ currentLocation = NoLocation
    /\ waypoints = <<>>
    /\ routeInfo = NoRouteInfo
    /\ routeCoordinates = <<>>
    /\ error = ""
    /\ component = "idle"
    /\ routeLineRef = NoLine
    /\ mapLayers = {}
    /\ lastFit = NoFit
    /\ res = <<>>
    /\ calls = <<>>
    /\ rtMounted = "none"
    /\ rtControls = <<>>
    /\ routingControlRef = 0
    /\ rtControlsOnMap = {}
    /\ rtLineRef = 0
    /\ rtLinesOnMap = {}
    /\ rtLines = 0
    /\ rtLastCall = NoCall
    /\ toAddress = ""
    /\ destinations = <<>>
    /\ loading = FALSE
    /\ geocodes = <<>>
    /\ transitCall = NoTransitCall
    /\ userMessage = ""
    /\ chatMessages = InitialChat
    /\ chatRendered = InitialChat
    /\ chatTimers = <<>>
    /\ chatSent = <<>>

\* the cleanup function an effect run returns
Cleanup(layers, ref) == IF ref # NoLine THEN layers \ {ref} ELSE layers

LastCleaned(rs) ==
    IF Len(rs) = 0 THEN rs ELSE [rs EXCEPT ![Len(rs)].cleaned = TRUE]

\* a commit that (re)runs RoutingMachine's effect with waypoint list wp: the
\* previous run's cleanup, then the effect body up to the call of fetch
RunEffect(wp) ==
    LET cleanedLayers == IF component = "mounted"
                         THEN Cleanup(mapLayers, routeLineRef) ELSE mapLayers
    IN  /\ Len(wp) >= 2
        /\ mapLayers' = Cleanup(cleanedLayers, routeLineRef)
        /\ routeLineRef' = NoLine
        /\ res' = Append(LastCleaned(res), NewResolution(wp))
        /\ component' = "mounted"

\* a tracker that reports the loss of the fix as a null location
LocationUpdate_LosesFix(location) ==
    /\ component # "unmounted"
    /\ currentLocation' = IF currentLocation = NoLocation THEN location ELSE NoLocation
    /\ UNCHANGED <<waypoints, routeInfo, routeCoordinates, error, component,
                   routeLineRef, mapLayers, lastFit, res, calls>>
    /\ UNCHANGED <<rtVars, geoVars, landingVars>>

\* handleLocationUpdate / the getCurrentPosition callback
LocationUpdate(location) ==
    /\ component # "unmounted"
    /\ currentLocation' = location
    /\ UNCHANGED <<waypoints, routeInfo, routeCoordinates, error, component,
                   routeLineRef, mapLayers, lastFit, res, calls>>
    /\ UNCHANGED <<rtVars, geoVars, landingVars>>

\* calculateRoute(destination), with the commit that follows setWaypoints
calculateRoute(coords) ==
    /\ component # "unmounted"
    /\ IF currentLocation = NoLocation
       THEN /\ error' = "Your current location is not available yet"
            /\ UNCHANGED <<waypoints, component, routeLineRef, mapLayers, res>>
       ELSE /\ Len(res) < MaxResolutions
            /\ waypoints' = <<currentLocation, coords>>
            /\ RunEffect(<<currentLocation, coords>>)
            /\ UNCHANGED error
    /\ UNCHANGED <<currentLocation, routeInfo, routeCoordinates, lastFit, calls>>
    /\ UNCHANGED <<rtVars, geoVars, landingVars>>

\* a re-render of App hands RoutingMachine a new onRoutesFound function, which
\* is a dependency of the effect: the effect runs again on the same waypoints
Rerender ==
    /\ component = "mounted"
    /\ Len(res) < MaxResolutions
    /\ RunEffect(waypoints)
    /\ UNCHANGED <<currentLocation, waypoints, routeInfo, routeCoordinates, error,
                   lastFit, calls>>
    /\ UNCHANGED <<rtVars, geoVars, landingVars>>

\* a parent renders RoutingMachine with the prop waypoints = wp, a list of any
\* length: the previous run's cleanup, and the effect, which returns at once
\* for fewer than 2 points
RenderWith(wp) ==
    /\ component # "unmounted"
    /\ waypoints' = wp
    /\ IF Len(wp) < 2
       THEN /\ mapLayers' = IF component = "mounted"
                            THEN Cleanup(mapLayers, routeLineRef) ELSE mapLayers
            /\ res' = LastCleaned(res)
            /\ component' = "mounted"
            /\ UNCHANGED routeLineRef
       ELSE /\ Len(res) < MaxResolutions
            /\ RunEffect(wp)
    /\ UNCHANGED <<currentLocation, routeInfo, routeCoordinates, error, lastFit, calls>>
    /\ UNCHANGED <<rtVars, geoVars, landingVars>>

\* App unmounts: the cleanup of the last effect run
Unmount ==
    /\ component = "mounted"
    /\ component' = "unmounted"
    /\ mapLayers' = Cleanup(mapLayers, routeLineRef)
    /\ res' = LastCleaned(res)
    /\ UNCHANGED <<currentLocation, waypoints, routeInfo, routeCoordinates, error,
                   routeLineRef, lastFit, calls>>
    /\ UNCHANGED <<rtVars, geoVars, landingVars>>

\* the end of the synchronous run x of resolution r
Commit(r, x, outcome, routes) ==
    /\ mapLayers' = x.w.mapLayers
    /\ routeLineRef' = x.w.routeLineRef
    /\ lastFit' = x.w.lastFit
    /\ calls' = x.w.calls
    /\ routeInfo' = x.w.routeInfo
    /\ routeCoordinates' = x.w.routeCoordinates
    /\ res' = [res EXCEPT ![r] = [@ EXCEPT !.pc = "done", !.outcome = outcome,
                                           !.routes = routes,
                                           !.tiers = x.w.tiers,
                                           !.threwIn = x.w.threwIn,
                                           !.fetch = x.fetch, !.chain = x.chain]]
    /\ UNCHANGED <<currentLocation, waypoints, error, component>>
    /\ UNCHANGED <<rtVars, geoVars, landingVars>>

\* `await fetch(url)` settles with a response of some status
FetchResponds(r, statuses) ==
    /\ r \in 1..Len(res)
    /\ res[r].pc = "fetch"
    /\ \E status \in statuses :
          res' = [res EXCEPT ![r] = [@ EXCEPT !.pc = "json", !.status = status]]
    /\ UNCHANGED <<currentLocation, waypoints, routeInfo, routeCoordinates, error,
                   component, routeLineRef, mapLayers, lastFit, calls>>
    /\ UNCHANGED <<rtVars, geoVars, landingVars>>

\* `await fetch(url)` rejects: the catch block of fetchRoute
FetchRejects(r, throws) ==
    /\ r \in 1..Len(res)
    /\ res[r].pc = "fetch"
    /\ \E t1 \in throws :
       \E t2 \in IF ReachesTier2(t1) THEN throws ELSE {"none"} :
          Commit(r, createFallbackRoute(World, r, res[r].wp, t1, t2), "rejected", <<>>)

BodyKind(body) ==
    IF ~body.parses THEN "unparsable"
    ELSE IF ~body.hasRoutes THEN "noroutes"
    ELSE IF Len(body.routes) = 0 THEN "empty"
    ELSE "routes"

\* `await response.json()` settles, and fetchRoute runs to its end
JsonSettles(r, bodies, throws) ==
    /\ r \in 1..Len(res)
    /\ res[r].pc = "json"
    /\ \E body \in bodies :
       \E tP \in IF BodyKind(body) = "routes" THEN throws ELSE {"none"} :
       \E t1 \in IF ReachesTier1(body, tP) THEN throws ELSE {"none"} :
       \E t2 \in IF ReachesTier2(t1) THEN throws ELSE {"none"} :
          Commit(r, fetchRouteBody(World, r, res[r].wp, body, tP, t1, t2),
                 BodyKind(body), body.routes)

-----------------------------------------------------------------------------
(* RouteTracker                                                            *)

LatLng(lat, lng) == [lat |-> lat, lng |-> lng]

RtPath == << LatLng(0, 0), LatLng(40, 30) >>

\* the routes a 'routesfound' event can carry; coordinates may be missing
RtCandidates ==
    { [totalDistance |-> 100, totalTime |-> 9, hasCoordinates |-> TRUE, coordinates |-> RtPath],
      [totalDistance |-> 100, totalTime |-> 18, hasCoordinates |-> TRUE, coordinates |-> RtPath],
      [totalDistance |-> 200, totalTime |-> 9, hasCoordinates |-> TRUE, coordinates |-> RtPath],
      [totalDistance |-> 100, totalTime |-> 9, hasCoordinates |-> TRUE, coordinates |-> <<>>],
      [totalDistance |-> 100, totalTime |-> 9, hasCoordinates |-> FALSE, coordinates |-> <<>>] }

RtWaypointLists ==
    { <<>>, << <<0, 0>> >>, << <<0, 0>>, <<100, 100>> >>,
      << <<0, 0>>, <<100, 100>>, <<-200, 300>> >> }

\* routes.reduce((minRoute, currentRoute) => ..., routes[0]), as the index of
\* the route object it returns
RECURSIVE ReduceShortest(_, _, _)
ReduceShortest(routes, i, minRoute) ==
    IF i > Len(routes) THEN minRoute
    ELSE ReduceShortest(routes, i + 1,
             IF routes[i].totalDistance < routes[minRoute].totalDistance
             THEN i ELSE minRoute)

\* the reduce with <= in place of <: the last minimum wins
RECURSIVE ReduceLastShortest(_, _, _)
ReduceLastShortest(routes, i, minRoute) ==
    IF i > Len(routes) THEN minRoute
    ELSE ReduceLastShortest(routes, i + 1,
             IF routes[i].totalDistance <= routes[minRoute].totalDistance
             THEN i ELSE minRoute)

shortestRoute_LastWins(routes) == ReduceLastShortest(routes, 1, 1)

\* the reduce with ties in distance broken by the shorter time
RECURSIVE ReduceQuickest(_, _, _)
ReduceQuickest(routes, i, minRoute) ==
    IF i > Len(routes) THEN minRoute
    ELSE ReduceQuickest(routes, i + 1,
             IF \/ routes[i].totalDistance < routes[minRoute].totalDistance
                \/ /\ routes[i].totalDistance = routes[minRoute].totalDistance
                   /\ routes[i].totalTime < routes[minRoute].totalTime
             THEN i ELSE minRoute)

shortestRoute_ByDuration(routes) == ReduceQuickest(routes, 1, 1)

shortestRoute(routes) == ReduceShortest(routes, 1, 1)

\* shortestRoute.coordinates.map(coord => [coord.lat, coord.lng])
ToPairs(coordinates) ==
    [i \in 1..Len(coordinates) |-> <<coordinates[i].lat, coordinates[i].lng>>]

\* the cleanup function of an effect run, and the "clear any existing routes"
\* lines of the effect body: neither resets the refs
\* a clearing that leaves the highlight polyline on the map
RtClearLines_Keep == rtLinesOnMap

RtClearControls == IF routingControlRef # 0
                   THEN rtControlsOnMap \ {routingControlRef} ELSE rtControlsOnMap
RtClearLines == IF rtLineRef # 0 THEN rtLinesOnMap \ {rtLineRef} ELSE rtLinesOnMap

\* the waypoints option of L.Routing.control:
\* waypoints.map(point => L.latLng(point))
ControlWaypoints(wp) == [i \in 1..Len(wp) |-> LatLng(wp[i][1], wp[i][2])]

\* a commit of RouteTracker with props waypoints = wp, highlightShortest = hl:
\* the previous run's cleanup and the effect body
RTRender(wp, hl) ==
    /\ rtMounted # "gone"
    /\ rtLinesOnMap' = RtClearLines
    /\ IF Len(wp) < 2
       THEN /\ rtMounted' = "nocleanup"
            /\ rtControlsOnMap' = RtClearControls
            /\ UNCHANGED <<rtControls, routingControlRef>>
       ELSE /\ Len(rtControls) < MaxControls
            /\ rtMounted' = "cleanup"
            /\ rtControls' = Append(rtControls,
                   [wp |-> wp, waypoints |-> ControlWaypoints(wp),
                    highlightShortest |-> hl, found |-> 0, errors |-> 0,
                    calls |-> 0])
            /\ routingControlRef' = Len(rtControls) + 1
            /\ rtControlsOnMap' = RtClearControls \cup {Len(rtControls) + 1}
    /\ UNCHANGED <<rtLineRef, rtLines, rtLastCall>>
    /\ UNCHANGED <<rmVars, geoVars, landingVars>>

\* RouteTracker unmounts: the cleanup of the last effect run, if it returned one
RTUnmount ==
    /\ rtMounted \in {"cleanup", "nocleanup"}
    /\ rtMounted' = "gone"
    /\ IF rtMounted = "cleanup"
       THEN /\ rtControlsOnMap' = RtClearControls
            /\ rtLinesOnMap' = RtClearLines
       ELSE UNCHANGED <<rtControlsOnMap, rtLinesOnMap>>
    /\ UNCHANGED <<rtControls, routingControlRef, rtLineRef, rtLines, rtLastCall>>
    /\ UNCHANGED <<rmVars, geoVars, landingVars>>

RECURSIVE EventsUpTo(_)
EventsUpTo(c) ==
    IF c = 0 THEN 0
    ELSE rtControls[c].found + rtControls[c].errors + EventsUpTo(c - 1)

\* the events fired so far
RtEvents == EventsUpTo(Len(rtControls))

\* L.latLngBounds(coordinates) is valid when there is at least one point
RtBoundsValid(route) == route.hasCoordinates /\ Len(route.coordinates) > 0

\* the 'routesfound' handler of control c, for an event carrying `routes`
RTRoutesFound(c, routes) ==
    /\ c \in 1..Len(rtControls)
    /\ RtEvents < MaxEvents
    /\ IF Len(routes) = 0
       THEN /\ rtControls' = [rtControls EXCEPT ![c].found = @ + 1]
            /\ UNCHANGED <<rtLineRef, rtLinesOnMap, rtLines, rtLastCall>>
       ELSE LET selected == shortestRoute(routes)
                route == routes[selected]
                highlight == rtControls[c].highlightShortest /\ route.hasCoordinates
                reported == RtBoundsValid(route)
            IN  /\ IF highlight
                   THEN /\ rtLines' = rtLines + 1
                        /\ rtLinesOnMap' = RtClearLines \cup {rtLines + 1}
                        /\ rtLineRef' = rtLines + 1
                   ELSE UNCHANGED <<rtLineRef, rtLinesOnMap, rtLines>>
                /\ IF reported
                   THEN /\ rtLastCall' =
                               [control |-> c, routes |-> routes, selected |-> selected,
                                distance |-> route.totalDistance,
                                duration |-> route.totalTime,
                                coordinates |-> ToPairs(route.coordinates)]
                        /\ rtControls' = [rtControls EXCEPT ![c].found = @ + 1,
                                                            ![c].calls = @ + 1]
                   ELSE /\ rtControls' = [rtControls EXCEPT ![c].found = @ + 1]
                        /\ UNCHANGED rtLastCall
    /\ UNCHANGED <<rtMounted, routingControlRef, rtControlsOnMap>>
    /\ UNCHANGED <<rmVars, geoVars, landingVars>>

\* the 'routingerror' handler of control c: console.error only
RTRoutingError(c) ==
    /\ c \in 1..Len(rtControls)
    /\ RtEvents < MaxEvents
    /\ rtControls' = [rtControls EXCEPT ![c].errors = @ + 1]
    /\ UNCHANGED <<rtMounted, routingControlRef, rtControlsOnMap, rtLineRef,
                   rtLinesOnMap, rtLines, rtLastCall>>
    /\ UNCHANGED <<rmVars, geoVars, landingVars>>

RtRouteLists == UNION { [1..n -> RtCandidates] : n \in 0..MaxRoutes }

\* the events drawn when several routing controls overlap
RtFewLists ==
    { <<>> } \cup { <<c>> : c \in { x \in RtCandidates : x.totalTime = 9 /\ x.totalDistance = 100 } }

\* RouteTracker across waypoint changes
NextRT ==
    \/ \E wp \in RtWaypointLists, hl \in BOOLEAN : RTRender(wp, hl)
    \/ RTUnmount
    \/ \E c \in 1..MaxControls, routes \in RtFewLists : RTRoutesFound(c, routes)
    \/ \E c \in 1..MaxControls : RTRoutingError(c)

SpecRT == Init /\ [][NextRT]_vars

\* one routing control of RouteTracker against every event
NextSelect ==
    \/ \E wp \in RtWaypointLists, hl \in BOOLEAN : rtControls = <<>> /\ RTRender(wp, hl)
    \/ RTUnmount
    \/ \E routes \in RtRouteLists : RTRoutesFound(1, routes)
    \/ RTRoutingError(1)

SpecSelect == Init /\ [][NextSelect]_vars

\* the travel-cost App with overlapping resolutions
Next ==
    \/ \E location \in Locations : LocationUpdate(location)
    \/ \E coords \in FewDests : calculateRoute(coords)
    \/ Rerender
    \/ Unmount
    \/ \E r \in 1..MaxResolutions : FetchResponds(r, FewStatuses)
    \/ \E r \in 1..MaxResolutions : FetchRejects(r, FewThrows)
    \/ \E r \in 1..MaxResolutions : JsonSettles(r, FewBodies, FewThrows)

Spec == Init /\ [][Next]_vars

\* the same, with the scheduling the event loop gives: once a response has
\* arrived, the continuation of fetchRoute runs. Nothing makes the provider
\* answer, and no timer is set on the fetch.
SpecFair ==
    Spec /\ \A r \in 1..MaxResolutions : WF_vars(JsonSettles(r, FewBodies, FewThrows))

NoThrows == { "none" }
HighlightOnly == { TRUE }

\* RoutingMachine and RouteTracker under a parent that hands them waypoint
\* lists of any length
NextProps ==
    \/ \E wp \in RtWaypointLists : RenderWith(wp)
    \/ \E r \in 1..MaxResolutions : FetchResponds(r, FewStatuses)
    \/ \E r \in 1..MaxResolutions : FetchRejects(r, NoThrows)
    \/ \E r \in 1..MaxResolutions : JsonSettles(r, FewBodies, NoThrows)
    \/ \E wp \in RtWaypointLists, hl \in HighlightOnly :
          rtControls = <<>> /\ RTRender(wp, hl)

SpecProps == Init /\ [][NextProps]_vars

\* one resolution, from the Navigate click to its end, against every answer
\* of the provider and every step that can throw
NextOne ==
    \/ \E location \in OneLocation : LocationUpdate(location)
    \/ \E coords \in DestCoords : res = <<>> /\ calculateRoute(coords)
    \/ Unmount
    \/ FetchResponds(1, Statuses)
    \/ FetchRejects(1, Throws)
    \/ JsonSettles(1, Bodies, Throws)

SpecOne == Init /\ [][NextOne]_vars


-----------------------------------------------------------------------------
(* Destinations of the travel-cost App: addDestination and geocodeAddress  *)

Addresses == { "", "Oslo", "Rome" }

\* parseFloat on the strings the geocoders send
ParseFloat(str) ==
    CASE str = "100" -> 100
      [] str = "-100" -> -100
      [] str = "0" -> 0
      [] OTHER -> "NaN"

\* what a geocoder can do with a request: the fetch rejects, the response is
\* not OK, its body is not JSON, or its body is null, an error object or a
\* list of results
LocationIQAnswers ==
    { [kind |-> "rejects", list |-> <<>>],
      [kind |-> "notok", list |-> <<>>],
      [kind |-> "badjson", list |-> <<>>],
      [kind |-> "null", list |-> <<>>],
      [kind |-> "object", list |-> <<>>],
      [kind |-> "list", list |-> <<>>],
      [kind |-> "list", list |-> << [lat |-> "100", lon |-> "-100"] >>] }

NominatimAnswers ==
    { [kind |-> "rejects", list |-> <<>>],
      [kind |-> "notok", list |-> <<>>],
      [kind |-> "badjson", list |-> <<>>],
      [kind |-> "list", list |-> <<>>],
      [kind |-> "list", list |-> << [lat |-> "0", lon |-> "100"],
                                    [lat |-> "100", lon |-> "0"] >>] }

NoAnswer == [kind |-> "none", list |-> <<>>]

\* data && data.length > 0
HasResults(answer) == answer.kind = "list" /\ Len(answer.list) > 0

FirstResult(answer) ==
    << ParseFloat(answer.list[1].lat), ParseFloat(answer.list[1].lon) >>

Found(coords, nominatim) == [ok |-> TRUE, coords |-> coords, nominatim |-> nominatim]
Failed(nominatim) == [ok |-> FALSE, coords |-> <<>>, nominatim |-> nominatim]

\* geocodeAddress(address) against the answers liq and nom of the two
\* geocoders: whether it resolves, with what, and whether Nominatim was asked.
\* Every throw inside the try block ends in the catch, which throws.
geocodeAddress(liq, nom) ==
    IF liq.kind \in {"rejects", "notok", "badjson"} THEN Failed(FALSE)
    ELSE IF HasResults(liq) THEN Found(FirstResult(liq), FALSE)
    ELSE IF nom.kind \in {"rejects", "notok", "badjson"} THEN Failed(TRUE)
    ELSE IF HasResults(nom) THEN Found(FirstResult(nom), TRUE)
    ELSE Failed(TRUE)

\* whether geocodeAddress sends the Nominatim request for this answer
AsksNominatim(liq) == geocodeAddress(liq, NoAnswer).nominatim

\* setToAddress(e.target.value)
TypeAddress(address) ==
    /\ component # "unmounted"
    /\ toAddress' = address
    /\ UNCHANGED <<destinations, loading, geocodes>>
    /\ UNCHANGED <<rmVars, rtVars, landingVars>>

\* addDestination up to `await geocodeAddress(toAddress)`; the Add button is
\* disabled while loading
addDestination ==
    /\ component # "unmounted"
    /\ ~loading
    /\ IF toAddress = ""
       THEN /\ error' = "Please enter a destination"
            /\ UNCHANGED <<loading, geocodes>>
       ELSE /\ Len(geocodes) < MaxGeocodes
            /\ error' = ""
            /\ loading' = TRUE
            /\ geocodes' = Append(geocodes,
                   [address |-> toAddress, pc |-> "pending", liq |-> NoAnswer,
                    nom |-> NoAnswer, result |-> Failed(FALSE)])
    /\ UNCHANGED <<toAddress, destinations>>
    /\ UNCHANGED <<currentLocation, waypoints, routeInfo, routeCoordinates, component,
                   routeLineRef, mapLayers, lastFit, res, calls>>
    /\ UNCHANGED <<rtVars, landingVars>>

\* a settling that leaves out the finally block
GeocodeSettles_NoFinally(g) ==
    /\ g \in 1..Len(geocodes)
    /\ geocodes[g].pc = "pending"
    /\ \E liq \in LocationIQAnswers :
       \E nom \in IF AsksNominatim(liq) THEN NominatimAnswers ELSE {NoAnswer} :
          LET result == geocodeAddress(liq, nom) IN
          /\ geocodes' = [geocodes EXCEPT ![g] = [@ EXCEPT !.pc = "done", !.liq = liq,
                                                          !.nom = nom, !.result = result]]
          /\ IF result.ok
             THEN /\ destinations' = Append(destinations,
                         [address |-> geocodes[g].address, coords |-> result.coords])
                  /\ toAddress' = ""
                  /\ UNCHANGED error
             ELSE /\ error' = "Failed to geocode address. Please try a different location."
                  /\ UNCHANGED <<destinations, toAddress>>
    /\ UNCHANGED loading
    /\ UNCHANGED <<currentLocation, waypoints, routeInfo, routeCoordinates, component,
                   routeLineRef, mapLayers, lastFit, res, calls>>
    /\ UNCHANGED <<rtVars, landingVars>>

\* geocodeAddress settles and addDestination runs to its end: the rest of the
\* try block or the catch block, then the finally block
GeocodeSettles(g) ==
    /\ g \in 1..Len(geocodes)
    /\ geocodes[g].pc = "pending"
    /\ \E liq \in LocationIQAnswers :
       \E nom \in IF AsksNominatim(liq) THEN NominatimAnswers ELSE {NoAnswer} :
          LET result == geocodeAddress(liq, nom) IN
          /\ geocodes' = [geocodes EXCEPT ![g] = [@ EXCEPT !.pc = "done", !.liq = liq,
                                                          !.nom = nom, !.result = result]]
          /\ IF result.ok
             THEN /\ destinations' = Append(destinations,
                         [address |-> geocodes[g].address, coords |-> result.coords])
                  /\ toAddress' = ""
                  /\ UNCHANGED error
             ELSE /\ error' = "Failed to geocode address. Please try a different location."
                  /\ UNCHANGED <<destinations, toAddress>>
    /\ loading' = FALSE
    /\ UNCHANGED <<currentLocation, waypoints, routeInfo, routeCoordinates, component,
                   routeLineRef, mapLayers, lastFit, res, calls>>
    /\ UNCHANGED <<rtVars, landingVars>>

\* removeDestination(index): prev.filter((_, i) => i !== index)
removeDestination(index) ==
    /\ component # "unmounted"
    /\ index \in 1..Len(destinations)
    /\ destinations' = [i \in 1..(Len(destinations) - 1) |->
                           IF i < index THEN destinations[i] ELSE destinations[i + 1]]
    /\ UNCHANGED <<toAddress, loading, geocodes>>
    /\ UNCHANGED <<rmVars, rtVars, landingVars>>

\* the destination list of the travel-cost App
NextGeo ==
    \/ \E address \in Addresses : TypeAddress(address)
    \/ addDestination
    \/ \E g \in 1..MaxGeocodes : GeocodeSettles(g)
    \/ \E index \in 1..MaxGeocodes : removeDestination(index)

SpecGeo == Init /\ [][NextGeo]_vars

-----------------------------------------------------------------------------
(* The landing App: generateTransitPoints                                  *)

\* paths of distinct points, the empty path included
Paths == { [i \in 1..n |-> <<i, 10 - i>>] : n \in 0..MaxPath }

Segments == [mode : {"bus", "walk"}, duration : {0, 1, 3}]

\* the segments argument: missing (undefined), or a list
SegmentInputs ==
    { [given |-> FALSE, list |-> <<>>] }
    \cup { [given |-> TRUE, list |-> l] :
              l \in UNION { [1..n -> Segments] : n \in 0..MaxSegments } }

RECURSIVE SumDurations(_, _)
SumDurations(list, n) ==
    IF n = 0 THEN 0 ELSE list[n].duration + SumDurations(list, n - 1)

\* Math.floor(Math.min(cumulative / totalDuration, 1) * (path.length - 1)),
\* with -1 standing for the NaN of 0 / 0. The quotient and the product are floating-point
\* numbers: where the exact product is a whole number above 0, the computed
\* one may fall just below it (0.58 * 100 is 57.99999999999999), which
\* `below` decides.
PointIndex(cumulative, totalDuration, length, below) ==
    IF totalDuration = 0 THEN -1
    ELSE IF cumulative >= totalDuration THEN length - 1
    ELSE LET product == cumulative * (length - 1)
             exact == product \div totalDuration
         IN  IF below /\ product % totalDuration = 0 /\ exact > 0
             THEN exact - 1 ELSE exact

\* path[pointIndex]: undefined (here the empty tuple) outside the array and
\* for NaN
PathAt(path, pointIndex) ==
    IF pointIndex \in 0..(Len(path) - 1) THEN path[pointIndex + 1] ELSE <<>>

\* the point pushed for the segment at 0-based position `index`
TransitPoint(path, list, index, below) ==
    [ position |-> PathAt(path, PointIndex(SumDurations(list, index),
                                           SumDurations(list, Len(list)),
                                           Len(path), index \in below)),
      type |-> list[index + 1].mode,
      details |-> list[index + 1] ]

\* a generateTransitPoints that does not skip the first segment
generateTransitPoints_NoSkip(path, segments, below) ==
    IF ~segments.given THEN <<>>
    ELSE [k \in 1..Len(segments.list) |->
             TransitPoint(path, segments.list, k - 1, below)]

\* generateTransitPoints(path, segments); below is the set of 0-based segment
\* positions at which the floating-point product falls below a whole number
generateTransitPoints(path, segments, below) ==
    IF ~segments.given THEN <<>>
    ELSE [k \in 1..(Len(segments.list) - 1) |->
             TransitPoint(path, segments.list, k, below)]

\* a call of generateTransitPoints by the landing App
TransitCall ==
    /\ ~transitCall.called
    /\ \E path \in Paths, segments \in SegmentInputs :
       \E below \in SUBSET (1..(Len(segments.list) - 1)) :
          transitCall' = [called |-> TRUE, path |-> path, segments |-> segments,
                          points |-> generateTransitPoints(path, segments, below)]
    /\ UNCHANGED <<userMessage, chatMessages, chatRendered, chatTimers, chatSent>>
    /\ UNCHANGED <<rmVars, rtVars, geoVars>>

NextTransit == TransitCall

SpecTransit == Init /\ [][NextTransit]_vars

-----------------------------------------------------------------------------
(* The landing App: the chat                                               *)

UserMessages == { "", " ", "hi", "eco" }

\* userMessage.trim()
Trim(text) == IF text = " " THEN "" ELSE text

\* the reply chosen from the keywords of the message
BotResponse(text) ==
    IF text = "eco" THEN "Taking the bus route I suggested will save 2.3kg of CO2"
    ELSE "I'm sorry, I don't have information about that yet."

UserEntry(text) == [sender |-> "user", text |-> text]
BotEntry(text) == [sender |-> "bot", text |-> BotResponse(text)]

Submissions == Cardinality({ i \in 1..Len(chatSent) : chatSent[i].sender = "user" })

\* onChange of the chat input: setUserMessage(e.target.value)
ChatType(text) ==
    /\ userMessage' = text
    /\ UNCHANGED <<transitCall, chatMessages, chatRendered, chatTimers, chatSent>>
    /\ UNCHANGED <<rmVars, rtVars, geoVars>>

\* handleChatSubmit: the user entry is appended to the chatMessages value of
\* the last committed render, and React renders the update before the event
\* ends; a blank message returns at once
handleChatSubmit ==
    /\ IF Trim(userMessage) = ""
       THEN UNCHANGED <<userMessage, chatMessages, chatRendered, chatTimers, chatSent>>
       ELSE /\ Submissions < MaxSubmissions
            /\ chatMessages' = Append(chatRendered, UserEntry(userMessage))
            /\ chatRendered' = Append(chatRendered, UserEntry(userMessage))
            /\ chatTimers' = Append(chatTimers, userMessage)
            /\ chatSent' = Append(chatSent, UserEntry(userMessage))
            /\ userMessage' = ""
    /\ UNCHANGED transitCall
    /\ UNCHANGED <<rmVars, rtVars, geoVars>>

\* the oldest setTimeout callback runs: setChatMessages(prev => [...prev, bot]).
\* The update is queued on the current state; its render is scheduled, not
\* run inside the callback.
ChatTimerFires ==
    /\ chatTimers # <<>>
    /\ chatMessages' = Append(chatMessages, BotEntry(Head(chatTimers)))
    /\ chatSent' = Append(chatSent, BotEntry(Head(chatTimers)))
    /\ chatTimers' = Tail(chatTimers)
    /\ UNCHANGED <<transitCall, userMessage, chatRendered>>
    /\ UNCHANGED <<rmVars, rtVars, geoVars>>

\* the scheduled render commits: handlers now close over the current log
ChatCommit ==
    /\ chatRendered # chatMessages
    /\ chatRendered' = chatMessages
    /\ UNCHANGED <<transitCall, userMessage, chatMessages, chatTimers, chatSent>>
    /\ UNCHANGED <<rmVars, rtVars, geoVars>>

NextChat ==
    \/ \E text \in UserMessages : ChatType(text)
    \/ handleChatSubmit
    \/ ChatTimerFires
    \/ ChatCommit

SpecChat == Init /\ [][NextChat]_vars

-----------------------------------------------------------------------------
(* Properties                                                              *)

\* the positions in `calls` of the invocations made by resolution r
CallsOf(r) == { i \in 1..Len(calls) : calls[i].res = r }

Resolutions == 1..Len(res)

MinDistance(routes) ==
    CHOOSE d \in { routes[i].distance : i \in 1..Len(routes) } :
        \A i \in 1..Len(routes) : d <= routes[i].distance

ProviderFailed(r) == res[r].outcome \in {"rejected", "unparsable", "noroutes", "empty"}

\* C1: the route RouteTracker reports to onRoutesFound has the minimum
\* totalDistance of the event's routes, and among the routes of minimum
\* distance it is the one with the lowest index.
C1_FirstMinimumSelected ==
    rtLastCall # NoCall =>
        LET routes == rtLastCall.routes
            k == rtLastCall.selected
        IN  /\ k \in 1..Len(routes)
            /\ rtLastCall.distance = routes[k].totalDistance
            /\ rtLastCall.duration = routes[k].totalTime
            /\ \A i \in 1..Len(routes) : rtLastCall.distance <= routes[i].totalDistance
            /\ \A i \in 1..(k - 1) : routes[i].totalDistance > rtLastCall.distance

\* a report for an event whose first two routes tie at the minimum and differ
C1_Witness ==
    /\ rtLastCall # NoCall
    /\ Len(rtLastCall.routes) >= 2
    /\ rtLastCall.routes[1].totalDistance = rtLastCall.routes[2].totalDistance
    /\ rtLastCall.routes[1] # rtLastCall.routes[2]
    /\ rtLastCall.selected = 1

C3_InvokedExactlyOnce ==
    \A r \in Resolutions :
        res[r].pc = "done" => Cardinality(CallsOf(r)) = 1

\* C4: no result of a resolution for other waypoints is applied after a result
\* of a later resolution, and once a later resolution has delivered, the route
\* line in routeLineRef is not one of an earlier resolution.
C4_NoStaleOverwrite ==
    /\ \A i, j \in 1..Len(calls) :
          (i < j /\ res[calls[i].res].wp # res[calls[j].res].wp)
              => calls[i].res <= calls[j].res
    /\ \A i \in 1..Len(calls) :
          (routeLineRef # NoLine /\ res[routeLineRef.res].wp # res[calls[i].res].wp)
              => routeLineRef.res >= calls[i].res

C6_Non2xxIsFailure ==
    \A i \in 1..Len(calls) :
        (res[calls[i].res].status # 0 /\ res[calls[i].res].status \notin 200..299)
            => calls[i].tier # "provider"

\* C7: whatever the provider does, the promise of fetchRoute and the promise
\* of the fallback chain do not reject, and a resolution that has run to its
\* end after a provider-level failure has delivered a route.
C7_NoFailureEscapes ==
    \A r \in Resolutions :
        /\ res[r].fetch # "rejected"
        /\ res[r].chain # "rejected"
        /\ (res[r].pc = "done" /\ (ProviderFailed(r) \/ "provider" \in res[r].threwIn))
              => \E i \in CallsOf(r) : ~calls[i].threw

\* C8: every delivered route has a non-negative distance and duration and a
\* path of at least 2 points.
C8_DeliveredRouteWellFormed ==
    \A i \in 1..Len(calls) :
        /\ calls[i].distance >= 0
        /\ calls[i].duration >= 0
        /\ Len(calls[i].coordinates) >= 2

\* C9: tier 2 runs exactly when tier 1 was attempted and threw, and directly
\* after it; the provider branch is never followed by tier 2.
C9_Tier2OnlyAfterTier1Throws ==
    \A r \in Resolutions :
        LET tiers == res[r].tiers IN
        /\ \A k \in 1..Len(tiers) :
              tiers[k] = "tier2" =>
                  k > 1 /\ tiers[k - 1] = "tier1" /\ "tier1" \in res[r].threwIn
        /\ \A k \in 1..Len(tiers) :
              (tiers[k] = "tier1" /\ "tier1" \in res[r].threwIn) =>
                  k < Len(tiers) /\ tiers[k + 1] = "tier2"
        /\ \A k \in 1..Len(tiers) :
              tiers[k] = "provider" => (k = 1 /\ (Len(tiers) > 1 => tiers[2] = "tier1"))

\* a resolution whose provider branch and tier 1 both threw
C9_Witness ==
    \E r \in Resolutions : res[r].tiers = <<"provider", "tier1", "tier2">>

\* C10: the distance tier 1 reports is the sum of the three distances between
\* consecutive points of the 4-point path it reports.
C10_PiecewiseSum ==
    \A i \in 1..Len(calls) :
        calls[i].tier = "tier1" =>
            LET p == calls[i].coordinates
            IN  /\ Len(p) = 4
                /\ calls[i].distance =
                       distanceTo(p[1], p[2]) + distanceTo(p[2], p[3]) + distanceTo(p[3], p[4])

\* a tier-1 report whose distance differs from the direct distance
C10_Witness ==
    \E i \in 1..Len(calls) :
        /\ calls[i].tier = "tier1"
        /\ calls[i].distance # distanceTo(calls[i].coordinates[1], calls[i].coordinates[4])

\* the origin and the destination of the resolution that made invocation i
OriginOf(i) == res[calls[i].res].wp[1]
DestinationOf(i) == res[calls[i].res].wp[2]

\* C11 as stated: the two interior points of the path tier 1 delivers lie
\* exactly at 1/3 and 2/3 of the way from the origin to the destination, in
\* latitude and in longitude.
C11_InteriorPointsAtThirds ==
    \A i \in 1..Len(calls) :
        calls[i].tier = "tier1" =>
            LET o == OriginOf(i)
                d == DestinationOf(i)
                p == calls[i].coordinates
            IN  \A k \in 1..2 :
                    /\ 3 * (p[2][k] - o[k]) = d[k] - o[k]
                    /\ 3 * (p[3][k] - o[k]) = 2 * (d[k] - o[k])

\* C11 amended: the two interior points of the path tier 1 delivers lie at
\* 0.33 and 0.66 of the way from the origin to the destination, in latitude
\* and in longitude.
C11_InteriorPointsAtHundredths ==
    \A i \in 1..Len(calls) :
        calls[i].tier = "tier1" =>
            LET o == OriginOf(i)
                d == DestinationOf(i)
                p == calls[i].coordinates
            IN  \A k \in 1..2 :
                    /\ 100 * (p[2][k] - o[k]) = 33 * (d[k] - o[k])
                    /\ 100 * (p[3][k] - o[k]) = 66 * (d[k] - o[k])

\* a tier-1 delivery between points whose exact thirds are points of the grid
C11_Witness ==
    \E i \in 1..Len(calls) :
        /\ calls[i].tier = "tier1"
        /\ ~calls[i].threw
        /\ \A k \in 1..2 :
              /\ DestinationOf(i)[k] # OriginOf(i)[k]
              /\ (DestinationOf(i)[k] - OriginOf(i)[k]) % 300 = 0

\* C12: the path tier 2 delivers is the 2-point sequence waypoints[0],
\* waypoints[1], and the distance it delivers is the direct distance between
\* those two points.
C12_Tier2DeliversDirectLine ==
    \A i \in 1..Len(calls) :
        calls[i].tier = "tier2" =>
            /\ calls[i].coordinates = <<OriginOf(i), DestinationOf(i)>>
            /\ calls[i].distance = distanceTo(OriginOf(i), DestinationOf(i))

\* a tier-2 delivery between distinct points, after tier 1 threw
C12_Witness ==
    \E i \in 1..Len(calls) :
        /\ calls[i].tier = "tier2"
        /\ ~calls[i].threw
        /\ OriginOf(i) # DestinationOf(i)
        /\ routeInfo.set /\ routeInfo.distance = calls[i].distance

\* C13: in tier 1 and in tier 2 the delivered duration is the delivered
\* distance divided by 40 km/h in metres per second:
\* duration * 40000 = distance * 3600.
C13_FallbackDurationAt40Kmh ==
    \A i \in 1..Len(calls) :
        calls[i].tier \in {"tier1", "tier2"} =>
            calls[i].duration * 40000 = calls[i].distance * 3600

\* a resolution in which tier 1 and tier 2 each delivered a distance above 0
C13_Witness ==
    \E i, j \in 1..Len(calls) :
        /\ calls[i].res = calls[j].res
        /\ calls[i].tier = "tier1" /\ calls[i].distance > 0
        /\ calls[j].tier = "tier2" /\ calls[j].distance > 0

C15_Tier1FitsLikeProvider ==
    \A i \in 1..Len(calls) :
        /\ calls[i].tier \in {"provider", "tier1"} =>
              calls[i].fit.padding = 50 /\ calls[i].fit.maxZoom = 15
        /\ calls[i].tier = "tier2" =>
              calls[i].fit.padding = 150 /\ calls[i].fit.maxZoom \in 1..13

\* C15 amended: the provider branch calls fitBounds with padding [50, 50] and
\* maxZoom 15, tier 1 with padding [150, 150] and maxZoom 13, tier 2 with
\* padding [150, 150] and maxZoom 1.
C15_FitByTier ==
    \A i \in 1..Len(calls) :
        /\ calls[i].tier = "provider" =>
              calls[i].fit.padding = 50 /\ calls[i].fit.maxZoom = 15
        /\ calls[i].tier = "tier1" =>
              calls[i].fit.padding = 150 /\ calls[i].fit.maxZoom = 13
        /\ calls[i].tier = "tier2" =>
              calls[i].fit.padding = 150 /\ calls[i].fit.maxZoom = 1

\* a tier-1 delivery that is the last fitBounds call made
C15_Witness ==
    \E i \in 1..Len(calls) :
        /\ i = Len(calls)
        /\ calls[i].tier = "tier1"
        /\ ~calls[i].threw
        /\ lastFit = calls[i].fit

\* C16: every routing control of RouteTracker that has fired an event
\* ('routesfound', with or without routes, or 'routingerror') has invoked
\* onRoutesFound exactly once.
C16_EveryResolutionReportsOnce ==
    \A c \in 1..Len(rtControls) :
        rtControls[c].found + rtControls[c].errors >= 1 => rtControls[c].calls = 1

\* C17: a resolution does not wait for ever on its fetch: a pending fetch is
\* eventually answered, or given up after a timeout and followed by tier 1.
C17_FetchNeverWaitsForEver ==
    \A r \in 1..MaxResolutions :
        (r \in Resolutions /\ res[r].pc = "fetch")
            ~> (r \in Resolutions /\ res[r].pc # "fetch")

\* C18 as stated: among the routes of an event that share the distance of the
\* route RouteTracker reports, the reported one has the least totalTime, and
\* among those equal in both it is the first.
C18_TiesBrokenByDuration ==
    rtLastCall # NoCall =>
        LET routes == rtLastCall.routes
            k == rtLastCall.selected
        IN  \A i \in 1..Len(routes) :
                routes[i].totalDistance = routes[k].totalDistance =>
                    /\ routes[k].totalTime <= routes[i].totalTime
                    /\ (routes[i].totalTime = routes[k].totalTime => k <= i)

\* C18 amended: among the routes of an event that share the minimum
\* totalDistance, the route RouteTracker reports is the first-listed one,
\* whatever their totalTime.
C18_TiesBrokenByPosition ==
    rtLastCall # NoCall =>
        LET routes == rtLastCall.routes
            k == rtLastCall.selected
            shortest == { i \in 1..Len(routes) :
                            \A j \in 1..Len(routes) :
                                routes[i].totalDistance <= routes[j].totalDistance }
        IN  k \in shortest /\ \A i \in shortest : k <= i

\* a report of a route when a later route of the same distance takes less time
C18_Witness ==
    /\ rtLastCall # NoCall
    /\ \E i \in 1..Len(rtLastCall.routes) :
          /\ i > rtLastCall.selected
          /\ rtLastCall.routes[i].totalDistance = rtLastCall.distance
          /\ rtLastCall.routes[i].totalTime < rtLastCall.duration

\* a latitude within -90..90 degrees and a longitude within -180..180 degrees
ValidCoordinate(p) == p[1] \in -900..900 /\ p[2] \in -1800..1800

\* fetch(url) has been called: every effect run calls it before its first await
RequestSent(r) == res[r].pc \in {"fetch", "json", "done"}

\* C19: for a resolution whose origin or destination is not a valid
\* coordinate, no request is sent to the provider, no fallback tier runs,
\* nothing is delivered to onRoutesFound, and the caller holds an error.
C19_InvalidCoordinateRejected ==
    \A r \in Resolutions :
        ~(ValidCoordinate(res[r].wp[1]) /\ ValidCoordinate(res[r].wp[2])) =>
            /\ ~RequestSent(r)
            /\ res[r].tiers = <<>>
            /\ CallsOf(r) = {}
            /\ error # ""

C21_ProvenanceNamesBranch ==
    \A i \in 1..Len(calls) : calls[i].provenance = calls[i].tier

\* C24: at most one route polyline of RoutingMachine is on the map, and it is
\* the one routeLineRef.current refers to.
C24_OnePolylineOnMap ==
    /\ Cardinality(mapLayers) <= 1
    /\ mapLayers \subseteq {routeLineRef}

\* C25: a resolution whose effect cleanup has run adds no polyline, leaves
\* routeLineRef alone, calls neither fitBounds nor onRoutesFound when its fetch
\* completes afterwards, and after unmount no route polyline is on the map.
C25_NoEffectAfterCleanup ==
    /\ \A i \in 1..Len(calls) : ~calls[i].cleaned
    /\ \A line \in mapLayers : ~line.late
    /\ ~routeLineRef.late
    /\ component = "unmounted" => mapLayers = {}

\* C26: at most one highlight polyline and at most one routing control of
\* RouteTracker are on the map, whatever the waypoint changes and the events
\* (also those of a replaced control); and a render with fewer than 2
\* waypoints leaves no routing control and no highlight polyline on the map
\* and creates no routing control.
C26_OneLineOneControl ==
    /\ [](Cardinality(rtLinesOnMap) <= 1 /\ Cardinality(rtControlsOnMap) <= 1)
    /\ [][ (rtMounted' = "nocleanup" /\ rtControls' = rtControls)
              => (rtControlsOnMap' = {} /\ rtLinesOnMap' = {}) ]_vars

\* two routing controls were created, both have fired 'routesfound', the
\* replaced one at least twice, and a highlight polyline is on the map
C26_Witness ==
    /\ Len(rtControls) = 2
    /\ rtControls[1].found >= 2
    /\ rtControls[2].found >= 1
    /\ rtLines >= 3
    /\ rtLinesOnMap # {}

\* C27: in the travel-cost App, whenever routeInfo is set or waypoints is
\* non-empty, currentLocation is set; waypoints is empty or a pair, and every
\* change of waypoints sets it to [currentLocation at that moment, coords of a
\* destination]; calculateRoute without a current location sets the error
\* message and leaves waypoints unchanged.
C27_LocationSetWheneverRouted ==
    /\ []( /\ (routeInfo.set \/ waypoints # <<>>) => currentLocation # NoLocation
           /\ waypoints = <<>> \/ Len(waypoints) = 2 )
    /\ [][ /\ waypoints' # waypoints =>
                /\ currentLocation # NoLocation
                /\ \E coords \in DestCoords : waypoints' = <<currentLocation, coords>>
           /\ (error' # error /\ error' = "Your current location is not available yet") =>
                /\ currentLocation = NoLocation
                /\ waypoints' = waypoints ]_vars

\* Navigate was refused for want of a location, later a route was delivered,
\* and the location has moved on since the click that set waypoints
C27_Witness ==
    /\ error = "Your current location is not available yet"
    /\ routeInfo.set
    /\ Len(waypoints) = 2
    /\ currentLocation # waypoints[1]

FirstTwo(wp) == SubSeq(wp, 1, 2)

\* for RoutingMachine, the request and the delivered route are those of the
\* list cut to its first two points
RoutingMachineUsesFirstTwo ==
    /\ \A r \in Resolutions : res[r].url = RequestUrl(FirstTwo(res[r].wp))
    /\ \A i, j \in 1..Len(calls) :
          ( /\ FirstTwo(res[calls[i].res].wp) = FirstTwo(res[calls[j].res].wp)
            /\ res[calls[i].res].status = res[calls[j].res].status
            /\ res[calls[i].res].outcome = res[calls[j].res].outcome
            /\ res[calls[i].res].routes = res[calls[j].res].routes
            /\ calls[i].tier = calls[j].tier )
              => /\ calls[i].distance = calls[j].distance
                 /\ calls[i].duration = calls[j].duration
                 /\ calls[i].coordinates = calls[j].coordinates

\* C22 as stated: in RoutingMachine and in RouteTracker, the request made for
\* a waypoint list of length >= 2, and the route delivered, are those of the
\* list cut to its first two points.
C22_OnlyFirstTwoPointsUsed ==
    /\ RoutingMachineUsesFirstTwo
    /\ \A c \in 1..Len(rtControls) :
          rtControls[c].waypoints = ControlWaypoints(FirstTwo(rtControls[c].wp))

\* C22 amended: RoutingMachine requests and delivers the route of the first
\* two points of its waypoint list; RouteTracker hands every point of its
\* list, in order, to the routing control.
C22_FirstTwoInRoutingMachineOnly ==
    /\ RoutingMachineUsesFirstTwo
    /\ \A c \in 1..Len(rtControls) :
          /\ Len(rtControls[c].waypoints) = Len(rtControls[c].wp)
          /\ \A k \in 1..Len(rtControls[c].wp) :
                rtControls[c].waypoints[k] =
                    LatLng(rtControls[c].wp[k][1], rtControls[c].wp[k][2])

\* RoutingMachine delivered tier-1 routes for a list of 3 points and for its
\* first two points, and RouteTracker created a control for a list of 3 points
C22_Witness ==
    /\ \E i, j \in 1..Len(calls) :
          /\ Len(res[calls[i].res].wp) = 3
          /\ Len(res[calls[j].res].wp) = 2
          /\ FirstTwo(res[calls[i].res].wp) = res[calls[j].res].wp
          /\ calls[i].tier = "tier1" /\ calls[j].tier = "tier1"
    /\ \E c \in 1..Len(rtControls) : Len(rtControls[c].wp) = 3

LocationIQFailed(answer) ==
    \/ answer.kind \in {"rejects", "notok"}
    \/ answer.kind = "list" /\ Len(answer.list) = 0

\* C23: whenever the LocationIQ request rejects, returns a non-OK status or
\* returns an empty list, geocodeAddress asks Nominatim, and when Nominatim
\* returns at least one result it resolves with the [lat, lon] of the first.
C23_NominatimAfterEveryFailure ==
    \A g \in 1..Len(geocodes) :
        (geocodes[g].pc = "done" /\ LocationIQFailed(geocodes[g].liq)) =>
            /\ geocodes[g].result.nominatim
            /\ HasResults(geocodes[g].nom) =>
                  /\ geocodes[g].result.ok
                  /\ geocodes[g].result.coords = FirstResult(geocodes[g].nom)

\* the geocodeAddress calls that settle in a step
Settling == { g \in 1..Len(geocodes) : geocodes[g].pc = "pending" /\ geocodes'[g].pc = "done" }

\* C28: addDestination appends the entered address with its coordinates to
\* the end of destinations exactly when geocoding succeeds; when it fails,
\* destinations is unchanged and a non-empty error is set; with an empty
\* toAddress no geocoding starts and destinations is unchanged; and when a
\* started geocoding completes, loading is false again.
C28_AppendsExactlyOnSuccess ==
    /\ [](\A g \in 1..Len(geocodes) : geocodes[g].address # "")
    /\ [][ /\ \A g \in Settling :
                /\ loading' = FALSE
                /\ IF geocodes'[g].result.ok
                   THEN destinations' = Append(destinations,
                            [address |-> geocodes[g].address,
                             coords |-> geocodes'[g].result.coords])
                   ELSE destinations' = destinations /\ error' # ""
           /\ Len(destinations') > Len(destinations) =>
                \E g \in Settling : geocodes'[g].result.ok
           /\ Len(geocodes') > Len(geocodes) =>
                toAddress # "" /\ destinations' = destinations
           /\ (error' # error /\ error' = "Please enter a destination") =>
                /\ toAddress = ""
                /\ geocodes' = geocodes /\ destinations' = destinations ]_vars

\* a geocoding failed and a later one, answered by Nominatim, added a
\* destination behind one already in the list
C28_Witness ==
    /\ Len(destinations) >= 1
    /\ ~loading
    /\ \E g, h \in 1..Len(geocodes) :
          /\ g < h
          /\ geocodes[g].pc = "done" /\ ~geocodes[g].result.ok
          /\ geocodes[h].pc = "done" /\ geocodes[h].result.ok
          /\ geocodes[h].result.nominatim
          /\ destinations[Len(destinations)] =
                 [address |-> geocodes[h].address, coords |-> geocodes[h].result.coords]

\* the 0-based index in path of a returned position, -1 for undefined
IndexInPath(path, position) ==
    IF \E i \in 1..Len(path) : path[i] = position
    THEN (CHOOSE i \in 1..Len(path) : path[i] = position) - 1
    ELSE -1

\* a call within the claim's precondition: a non-empty path and positive
\* durations
TransitCallInDomain ==
    /\ transitCall.called
    /\ Len(transitCall.path) >= 1
    /\ \A k \in 1..Len(transitCall.segments.list) :
          transitCall.segments.list[k].duration > 0

\* the k-th point has the mode of segment k, every position is an element of
\* path, and the indices of the positions do not decrease
TransitPointsWellPlaced ==
    LET path == transitCall.path
        list == transitCall.segments.list
        points == transitCall.points
    IN  /\ \A k \in 1..Len(points) :
              /\ points[k].type = list[k + 1].mode
              /\ IndexInPath(path, points[k].position) \in 0..(Len(path) - 1)
        /\ \A k \in 1..(Len(points) - 1) :
              IndexInPath(path, points[k].position)
                  <= IndexInPath(path, points[k + 1].position)

\* C29 as stated: for a non-empty path and positive durations,
\* generateTransitPoints returns len(segments) - 1 points (none when segments
\* is missing), the k-th with the mode of segment k, at positions of path
\* whose indices lie in [0, len(path) - 1] and do not decrease.
C29_OnePointPerLaterSegment ==
    TransitCallInDomain =>
        /\ Len(transitCall.points) =
               IF transitCall.segments.given
               THEN Len(transitCall.segments.list) - 1 ELSE 0
        /\ TransitPointsWellPlaced

\* C29 amended: the same, with no points for an empty segment list as well
\* (len(segments) - 1 points only for len(segments) >= 1).
C29_OnePointPerLaterSegmentIfAny ==
    TransitCallInDomain =>
        /\ Len(transitCall.points) =
               IF transitCall.segments.given /\ Len(transitCall.segments.list) >= 1
               THEN Len(transitCall.segments.list) - 1 ELSE 0
        /\ TransitPointsWellPlaced

\* a call with 3 segments on a path of 4 points whose two points lie at
\* different positions, the second not at the end of the path
C29_Witness ==
    /\ TransitCallInDomain
    /\ Len(transitCall.path) = 4
    /\ Len(transitCall.points) = 2
    /\ IndexInPath(transitCall.path, transitCall.points[1].position)
          < IndexInPath(transitCall.path, transitCall.points[2].position)
    /\ IndexInPath(transitCall.path, transitCall.points[2].position) < 3
    /\ transitCall.points[1].type # transitCall.points[2].type

\* C30: the message log holds, after the greeting, every entry handed to
\* setChatMessages (one user entry per non-blank submission, one bot entry
\* per timer), each once and in the order they were handed over.
C30_LogKeepsEveryEntry ==
    chatMessages = InitialChat \o chatSent

====
